---- MODULE Spec2Model ----
(***************************************************************************)
(* Model of the agentspace demo agents repository: the response-part       *)
(* normalizer (invocations/response_utils.py) and the command-line scripts *)
(* that deploy and invoke the agent.                                       *)
(***************************************************************************)
EXTENDS Integers, Sequences, FiniteSets, TLC

VARIABLES
    pc,              \* position of the running script or call
    stream_events,   \* the event sequence handed to process_stream_response
    response_parts,  \* the list process_stream_response returned
    exc,             \* the exception that left the call, "none" when it returned
    stdout,          \* the lines printed so far, one entry per print call
    script,          \* the script that is run
    env,             \* os.getenv: the value of each environment variable, or None
    arg_id,          \* the value of --id on the command line, None without the flag
    exit_status,     \* the exit status of the process, -1 while it runs
    calls,           \* the calls made to the platform and its tools, in order
    log,             \* the records written through logger
    agent_resource_name,  \* the argument of test_deployed_agent
    session,         \* the session create_session returned
    query,           \* the number of the next test query
    access_token,    \* the token get_access_token returned
    resource_name,   \* the resource name of the agent deploy_agent created
    results,         \* the outcome of each call of calls, in the same order
    success,         \* what deploy_to_agentspace returned, None before it returns
    session_id,      \* adk_agent.main: the id of the session of the current query
    events_async,    \* adk_agent.main: the events run_async has still to deliver
    response_text,   \* adk_agent.main: the text chunks of the current query
    function_calls,  \* adk_agent.main: the calls collected in the current query
    function_responses  \* adk_agent.main: the responses collected in it

vars == <<pc, stream_events, response_parts, exc, stdout, script, env, arg_id,
          exit_status, calls, log, agent_resource_name, session, query,
          access_token, resource_name, results, success, session_id, events_async,
          response_text, function_calls, function_responses>>

\* the variables of adk_agent.main
adkVars == <<session_id, events_async, response_text, function_calls,
             function_responses>>

\* what the normalizer and the display routine do not touch
scriptVars == <<script, env, arg_id, exit_status, calls, log, agent_resource_name,
                session, query, access_token, resource_name, results, success,
                adkVars>>

(***************************************************************************)
(* Python values.  Every value carries its type, so that a dict, a str, a  *)
(* list, None and an int can meet in one field of an event.  A str is the  *)
(* sequence of its characters, a dict a function from its keys.            *)
(***************************************************************************)
Dict(f) == [ty |-> "dict", val |-> f]
List(s) == [ty |-> "list", val |-> s]
Str(s) == [ty |-> "str", val |-> s]
PyInt(n) == [ty |-> "int", val |-> <<n>>]
PyBool(b) == [ty |-> "bool", val |-> <<b>>]
None == [ty |-> "NoneType", val |-> <<>>]
EmptyMap == [k \in {} |-> None]

\* The outcome of a call: a returned value, or the exception that left it.
Ok(v) == [exc |-> "none", value |-> v]
Raise(e) == [exc |-> e, value |-> <<>>]

\* key in d, for a dict d.
HasKey(d, key) == key \in DOMAIN d.val

(***************************************************************************)
(* Bounds of the inputs.                                                   *)
(***************************************************************************)
MaxEvents == 2
MaxParts == 2
MaxText == 3

Chars == {" ", "\n", "a"}
IsSpace(c) == c \in {" ", "\n", "\t"}

SeqsUpTo(S, n) == UNION {[1..k -> S] : k \in 0..n}

(***************************************************************************)
(* str.strip(): leading and trailing whitespace removed.                   *)
(***************************************************************************)
RECURSIVE lstrip(_)
lstrip(s) ==
    IF s # <<>> /\ IsSpace(Head(s)) THEN lstrip(Tail(s)) ELSE s

RECURSIVE rstrip(_)
rstrip(s) ==
    IF s # <<>> /\ IsSpace(s[Len(s)]) THEN rstrip(SubSeq(s, 1, Len(s) - 1)) ELSE s

strip_leading_only(s) == lstrip(s)

strip(s) == rstrip(lstrip(s))

(***************************************************************************)
(* process_stream_response, response_utils.py lines 9-43.                  *)
(***************************************************************************)
UNKNOWN == <<"u", "n", "k", "n", "o", "w", "n">>

\* func_call.get(key, default)
dict_get(d, key, default) == IF HasKey(d, key) THEN d.val[key] ELSE default

\* lines 27-28: ("text", part["text"].strip())
text_tuple(part) ==
    IF part.val["text"].ty # "str" THEN Raise("AttributeError")
    ELSE Ok(<<"text", Str(strip(part.val["text"].val))>>)

\* lines 30-39: ("function_call", {"name": ..., "args": ...})
function_call_tuple_whole_call(part) ==
    LET func_call == part.val["function_call"] IN
    IF func_call.ty # "dict" THEN Raise("AttributeError")
    ELSE Ok(<<"function_call", func_call>>)

function_call_tuple(part) ==
    LET func_call == part.val["function_call"] IN
    IF func_call.ty # "dict" THEN Raise("AttributeError")
    ELSE Ok(<<"function_call",
              Dict([name |-> dict_get(func_call, "name", Str(UNKNOWN)),
                    args |-> dict_get(func_call, "args", Dict(EmptyMap))])>>)

\* lines 27-42: the body of the loop over the parts, for one part.
process_part_call_first(part) ==
    IF part.ty # "dict" THEN Raise("TypeError")
    ELSE IF HasKey(part, "function_call") THEN function_call_tuple(part)
    ELSE IF HasKey(part, "text") THEN text_tuple(part)
    ELSE Ok(<<"other", part>>)

process_part(part) ==
    IF part.ty # "dict" THEN Raise("TypeError")
    ELSE IF HasKey(part, "text") THEN text_tuple(part)
    ELSE IF HasKey(part, "function_call") THEN function_call_tuple(part)
    ELSE Ok(<<"other", part>>)

\* lines 26-42: for part in content["parts"], appending to response_parts.
RECURSIVE process_parts(_, _)
process_parts(parts, acc) ==
    IF parts = <<>> THEN Ok(acc)
    ELSE LET r == process_part(Head(parts)) IN
         IF r.exc # "none" THEN r
         ELSE process_parts(Tail(parts), Append(acc, r.value))

\* lines 23-42: the body of the loop over the events, for one event.
process_event_first_part_only(event, acc) ==
    IF ~(event.ty = "dict" /\ HasKey(event, "content")) THEN Ok(acc)
    ELSE LET content == event.val["content"] IN
         IF content.ty # "dict" THEN Raise("TypeError")
         ELSE IF ~HasKey(content, "parts") THEN Ok(acc)
         ELSE IF content.val["parts"].ty # "list" THEN Raise("TypeError")
         ELSE IF content.val["parts"].val = <<>> THEN Ok(acc)
         ELSE process_parts(<<Head(content.val["parts"].val)>>, acc)

process_event_prepending(event, acc) ==
    IF ~(event.ty = "dict" /\ HasKey(event, "content")) THEN Ok(acc)
    ELSE LET content == event.val["content"] IN
         IF content.ty # "dict" THEN Raise("TypeError")
         ELSE IF ~HasKey(content, "parts") THEN Ok(acc)
         ELSE IF content.val["parts"].ty # "list" THEN Raise("TypeError")
         ELSE LET r == process_parts(content.val["parts"].val, <<>>) IN
              IF r.exc # "none" THEN r ELSE Ok(r.value \o acc)

process_event(event, acc) ==
    IF ~(event.ty = "dict" /\ HasKey(event, "content")) THEN Ok(acc)
    ELSE LET content == event.val["content"] IN
         IF content.ty # "dict" THEN Raise("TypeError")
         ELSE IF ~HasKey(content, "parts") THEN Ok(acc)
         ELSE IF content.val["parts"].ty # "list" THEN Raise("TypeError")
         ELSE process_parts(content.val["parts"].val, acc)

\* lines 21-43: for event in stream_events.
RECURSIVE process_events(_, _)
process_events(events, acc) ==
    IF events = <<>> THEN Ok(acc)
    ELSE LET r == process_event(Head(events), acc) IN
         IF r.exc # "none" THEN r
         ELSE process_events(Tail(events), r.value)

process_stream_response(events) == process_events(events, <<>>)

(***************************************************************************)
(* display_response_parts, response_utils.py lines 46-62.  A line is one   *)
(* print call: its fixed text and the value formatted into it.             *)
(***************************************************************************)
Line(text, arg) == [text |-> text, arg |-> arg]
NoResponseLine == Line("No response received", None)

\* part_content[key] of line 57-58
subscript(d, key) ==
    IF d.ty # "dict" THEN Raise("TypeError")
    ELSE IF ~HasKey(d, key) THEN Raise("KeyError")
    ELSE Ok(d.val[key])

\* lines 54-60: the body of the loop, for one (part_type, part_content).
display_part_one_line(part) ==
    LET part_type == part[1]
        part_content == part[2]
    IN  IF part_type = "text" THEN Ok(<<Line("Response: ", part_content)>>)
        ELSE IF part_type = "function_call" THEN
            LET name == subscript(part_content, "name") IN
            IF name.exc # "none" THEN name
            ELSE Ok(<<Line("Function Call: ", name.value)>>)
        ELSE Ok(<<Line("Other part: ", part_content)>>)

display_part(part) ==
    LET part_type == part[1]
        part_content == part[2]
    IN  IF part_type = "text" THEN Ok(<<Line("Response: ", part_content)>>)
        ELSE IF part_type = "function_call" THEN
            LET name == subscript(part_content, "name")
                args == subscript(part_content, "args")
            IN  IF name.exc # "none" THEN name
                ELSE IF args.exc # "none"
                     THEN [exc |-> args.exc,
                           value |-> <<Line("Function Call: ", name.value)>>]
                ELSE Ok(<<Line("Function Call: ", name.value),
                          Line("  Args: ", args.value)>>)
        ELSE Ok(<<Line("Other part: ", part_content)>>)

\* lines 53-60: the loop; the lines printed before an exception stay printed.
RECURSIVE display_parts(_, _)
display_parts(parts, printed) ==
    IF parts = <<>> THEN Ok(printed)
    ELSE LET r == display_part(Head(parts)) IN
         IF r.exc # "none" THEN [exc |-> r.exc, value |-> printed \o r.value]
         ELSE display_parts(Tail(parts), printed \o r.value)

display_response_parts_silent_when_empty(parts) == display_parts(parts, <<>>)

display_response_parts(parts) ==
    IF parts # <<>> THEN display_parts(parts, <<>>)
    ELSE Ok(<<NoResponseLine>>)

(***************************************************************************)
(* The event sequences the normalizer is run on.                           *)
(***************************************************************************)
GET_WEATHER == <<"g", "e", "t", "_", "w", "e", "a", "t", "h", "e", "r">>
PARIS == <<"P", "a", "r", "i", "s">>
CityArgs == Dict([city |-> Str(PARIS)])

TextPart(t) == Dict([text |-> t])
CallPart(c) == Dict([function_call |-> c])
ResponsePart == Dict([function_response |-> Dict([name |-> Str(GET_WEATHER)])])

\* the three kinds of part, one of each
CoreParts ==
    { TextPart(Str(<<" ", "h", "i", " ">>)),
      CallPart(Dict([name |-> Str(GET_WEATHER), args |-> CityArgs])),
      ResponsePart }

Texts == SeqsUpTo(Chars, MaxText)

\* the values a function_call field can hold: a mapping with any of the keys
\* name, args and id, or null
CallKeyValues(k) ==
    IF k = "name" THEN {Str(GET_WEATHER), None}
    ELSE IF k = "args" THEN {CityArgs, Dict(EmptyMap), None}
    ELSE {Str(<<"c", "1">>)}

CallValues ==
    {None} \cup
    UNION { { Dict(f) : f \in { g \in [K -> UNION {CallKeyValues(k) : k \in K}] :
                                  \A k \in K : g[k] \in CallKeyValues(k) } } :
            K \in SUBSET {"name", "args", "id"} }

\* every shape of part: well-formed, with both keys, with neither, malformed
AllParts ==
    { TextPart(Str(t)) : t \in Texts }
    \cup { CallPart(c) : c \in CallValues }
    \cup { Dict([text |-> Str(t), function_call |-> c]) :
             t \in {<<>>, <<" ", "a">>}, c \in {None, CityArgs} }
    \cup { TextPart(None), Dict([text |-> None, function_call |-> CityArgs]) }
    \cup { ResponsePart, Dict(EmptyMap), None, PyInt(7) }

Event(parts) == Dict([content |-> Dict([parts |-> List(parts), role |-> Str(<<"m">>)])])

\* events that hold no list of parts
PartlessEvents ==
    { None, Dict(EmptyMap),
      Dict([content |-> Dict(EmptyMap)]),
      Dict([content |-> None]),
      Dict([content |-> Dict([parts |-> None])]) }

\* further events of an unexpected shape
OddEvents ==
    { PyInt(7), Dict([author |-> Str(<<"a">>)]), Dict([content |-> PyInt(7)]),
      Dict([content |-> Dict([role |-> Str(<<"m">>)])]),
      Dict([content |-> Dict([parts |-> PyInt(7)])]) }

CoreEvents == { Event(ps) : ps \in SeqsUpTo(CoreParts, MaxParts) } \cup PartlessEvents

Streams ==
    SeqsUpTo(CoreEvents, MaxEvents)
    \cup { <<Event(<<p>>)>> : p \in AllParts }
    \cup { <<e>> : e \in OddEvents }

(***************************************************************************)
(* The environment the scripts load at start (load_dotenv, os.getenv).     *)
(***************************************************************************)
EnvNames ==
    {"PROJECT_ID", "PROJECT_NUMBER", "LOCATION", "STAGING_BUCKET", "APP_ID",
     "ADK_DEPLOYMENT_ID"}

(***************************************************************************)
(* The normalizer and the display routine run on one event sequence.       *)
(***************************************************************************)
InitResponse ==
    /\ pc = "call"
    /\ stream_events \in Streams
    /\ response_parts = <<>>
    /\ exc = "none"
    /\ stdout = <<>>
    /\ script = "response_utils"
    /\ env = [n \in EnvNames |-> None]
    /\ arg_id = None
    /\ exit_status = -1
    /\ calls = <<>>
    /\ log = <<>>
    /\ agent_resource_name = None
    /\ session = None
    /\ query = 1
    /\ access_token = None
    /\ resource_name = None
    /\ results = <<>>
    /\ success = None
    /\ session_id = None
    /\ events_async = <<>>
    /\ response_text = <<>>
    /\ function_calls = <<>>
    /\ function_responses = <<>>

\* response_parts = process_stream_response(stream_events)
CallProcess ==
    /\ pc = "call"
    /\ LET r == process_stream_response(stream_events) IN
       IF r.exc = "none"
       THEN /\ response_parts' = r.value
            /\ pc' = "returned"
            /\ exc' = exc
       ELSE /\ exc' = r.exc
            /\ pc' = "raised"
            /\ response_parts' = response_parts
    /\ UNCHANGED <<stream_events, stdout, scriptVars>>

\* display_response_parts(response_parts)
CallDisplay ==
    /\ pc = "returned"
    /\ LET r == display_response_parts(response_parts) IN
       /\ stdout' = stdout \o r.value
       /\ exc' = r.exc
       /\ pc' = IF r.exc = "none" THEN "displayed" ELSE "display_raised"
    /\ UNCHANGED <<stream_events, response_parts, scriptVars>>

NextResponse == CallProcess \/ CallDisplay

SpecResponse == InitResponse /\ [][NextResponse]_vars

(***************************************************************************)
(* Properties of the normalizer and the display routine, under             *)
(* SpecResponse.  The input is read here without the normalizer's help:    *)
(* PartsOf and Flat walk the events by index.                              *)
(***************************************************************************)
Returned == pc \in {"returned", "displayed", "display_raised"}

\* the parts of an event that has a content field containing a parts field
PartsOf(event) ==
    IF event.ty = "dict" /\ HasKey(event, "content")
       /\ event.val["content"].ty = "dict" /\ HasKey(event.val["content"], "parts")
       /\ event.val["content"].val["parts"].ty = "list"
    THEN event.val["content"].val["parts"].val
    ELSE <<>>

\* events 1..k flattened: the parts in arrival order, each event's in list order
RECURSIVE Flat(_, _)
Flat(events, k) ==
    IF k = 0 THEN <<>> ELSE Flat(events, k - 1) \o PartsOf(events[k])

FlatInput == Flat(stream_events, Len(stream_events))

RECURSIVE TotalParts(_, _)
TotalParts(events, k) ==
    IF k = 0 THEN 0 ELSE TotalParts(events, k - 1) + Len(PartsOf(events[k]))

\* C1: the returned list has one entry per part of the events that hold a
\* content field with a parts field, and none for any other event.
C1_LengthIsPartCount ==
    Returned => Len(response_parts) = TotalParts(stream_events, Len(stream_events))

C1_Witness ==
    /\ Returned
    /\ Len(stream_events) = 2
    /\ \E i \in 1..2 : stream_events[i] \in PartlessEvents
    /\ \E i \in 1..2 : Len(PartsOf(stream_events[i])) = 2
    /\ Len(response_parts) = 2

\* C2: the n-th part of the flattened input produces the n-th tuple of the
\* output; nothing is reordered, merged or deduplicated.
C2_OrderPreserved ==
    Returned =>
        /\ Len(response_parts) = Len(FlatInput)
        /\ \A n \in 1..Len(FlatInput) :
              response_parts[n] = process_part(FlatInput[n]).value

C2_Witness ==
    /\ Returned
    /\ Len(stream_events) = 2
    /\ Len(FlatInput) = 4
    /\ FlatInput[1] # FlatInput[2]
    /\ FlatInput[2] = FlatInput[3]
    /\ response_parts[1] # response_parts[2]
    /\ response_parts[2] = response_parts[3]

\* C3: process_stream_response never raises, whatever the shape of the events.
C3_NeverRaises == pc # "raised"

\* C4: a part with a text key gives a text tuple, also when it has a
\* function_call key; otherwise a part with a function_call key gives a
\* function_call tuple; otherwise the part gives ("other", part), unchanged.
C4_ClassifiedByKey ==
    Returned =>
        \A n \in 1..Len(FlatInput) :
            LET part == FlatInput[n] IN
            /\ n \in DOMAIN response_parts
            /\ IF HasKey(part, "text") THEN response_parts[n][1] = "text"
               ELSE IF HasKey(part, "function_call")
                    THEN response_parts[n][1] = "function_call"
               ELSE response_parts[n] = <<"other", part>>

C4_Witness ==
    /\ Returned
    /\ Len(FlatInput) = 1
    /\ HasKey(FlatInput[1], "text") /\ HasKey(FlatInput[1], "function_call")
    /\ response_parts[1][1] = "text"

\* t is s without its leading and trailing whitespace
IsTrimOf(t, s) ==
    \E i \in 0..Len(s) : \E j \in 0..(Len(s) - i) :
        /\ t = SubSeq(s, i + 1, Len(s) - j)
        /\ \A k \in 1..i : IsSpace(s[k])
        /\ \A k \in (Len(s) - j + 1)..Len(s) : IsSpace(s[k])
        /\ t # <<>> => ~IsSpace(t[1]) /\ ~IsSpace(t[Len(t)])

\* C5: the content of a text tuple is the part's text without its leading and
\* trailing whitespace; an empty or whitespace-only text still gives a tuple.
C5_TextTrimmed ==
    Returned =>
        \A n \in 1..Len(FlatInput) :
            HasKey(FlatInput[n], "text") =>
                /\ n \in DOMAIN response_parts
                /\ response_parts[n][1] = "text"
                /\ response_parts[n][2].ty = "str"
                /\ IsTrimOf(response_parts[n][2].val, FlatInput[n].val["text"].val)

C5_Witness ==
    /\ Returned
    /\ Len(FlatInput) = 1
    /\ HasKey(FlatInput[1], "text")
    /\ LET s == FlatInput[1].val["text"].val IN
       Len(s) = 3 /\ IsSpace(s[1]) /\ ~IsSpace(s[2]) /\ IsSpace(s[3])
    /\ response_parts = << <<"text", Str(<<"a">>)>> >>

\* C6: a function_call tuple carries exactly name and args: the call's, or
\* "unknown" and an empty mapping when the call has none; nothing else of
\* the call is carried over.
C6_CallNameAndArgs ==
    Returned =>
        \A n \in 1..Len(FlatInput) :
            LET part == FlatInput[n] IN
            (~HasKey(part, "text") /\ HasKey(part, "function_call")) =>
                LET func_call == part.val["function_call"].val
                    out == response_parts[n]
                IN  /\ out[1] = "function_call"
                    /\ out[2].ty = "dict"
                    /\ DOMAIN out[2].val = {"name", "args"}
                    /\ out[2].val["name"] =
                          IF "name" \in DOMAIN func_call
                          THEN func_call["name"] ELSE Str(UNKNOWN)
                    /\ out[2].val["args"] =
                          IF "args" \in DOMAIN func_call
                          THEN func_call["args"] ELSE Dict(EmptyMap)

C6_Witness ==
    /\ Returned
    /\ Len(FlatInput) = 1
    /\ HasKey(FlatInput[1], "function_call")
    /\ DOMAIN FlatInput[1].val["function_call"].val = {"id"}
    /\ response_parts =
          << <<"function_call", Dict([name |-> Str(UNKNOWN), args |-> Dict(EmptyMap)])>> >>

Printed(line) == \E k \in DOMAIN stdout : stdout[k] = line

\* C7: an empty event sequence gives an empty list; the display of an empty
\* list is the one line "No response received", which is never printed for
\* a list that is not empty.
C7_EmptyCase ==
    /\ stream_events = <<>> => pc # "raised"
    /\ (Returned /\ stream_events = <<>>) => response_parts = <<>>
    /\ pc = "display_raised" => response_parts # <<>>
    /\ pc = "displayed" =>
          IF response_parts = <<>> THEN stdout = <<NoResponseLine>>
          ELSE ~Printed(NoResponseLine)

C7_Witness ==
    /\ pc = "displayed"
    /\ stream_events = <<>>
    /\ response_parts = <<>>
    /\ stdout = <<NoResponseLine>>

\* the lines of one variant: one for a text or other variant, two for a
\* function_call variant
LinesOf(part) ==
    IF part[1] = "text" THEN <<Line("Response: ", part[2])>>
    ELSE IF part[1] = "function_call"
         THEN <<Line("Function Call: ", part[2].val["name"]),
                Line("  Args: ", part[2].val["args"])>>
    ELSE <<Line("Other part: ", part[2])>>

RECURSIVE LinesOfFirst(_, _)
LinesOfFirst(parts, k) ==
    IF k = 0 THEN <<>> ELSE LinesOfFirst(parts, k - 1) \o LinesOf(parts[k])

\* C8 as stated: one line per variant, in order, and no error.
C8_OneLinePerVariant ==
    /\ pc # "display_raised"
    /\ (pc = "displayed" /\ response_parts # <<>>) =>
          /\ Len(stdout) = Len(response_parts)
          /\ \A n \in 1..Len(response_parts) :
                stdout[n] = LinesOf(response_parts[n])[1]

\* C8 as amended: a text or other variant is written as one line, a
\* function_call variant as two (its name, then its args); the lines follow
\* the order of the variants and the display raises nothing.
C8_LinesPerVariant ==
    /\ pc # "display_raised"
    /\ (pc = "displayed" /\ response_parts # <<>>) =>
          stdout = LinesOfFirst(response_parts, Len(response_parts))

C8_Witness ==
    /\ pc = "displayed"
    /\ Len(response_parts) = 2
    /\ response_parts[1][1] = "function_call"
    /\ response_parts[2][1] = "text"
    /\ Len(stdout) = 3
    /\ stdout[3] = Line("Response: ", response_parts[2][2])

(***************************************************************************)
(* The scripts.  Each run starts with the environment loaded and the       *)
(* command line parsed; a call to the platform is recorded in calls with   *)
(* the values the code passes to it.                                       *)
(***************************************************************************)
Scripts ==
    {"invoke_adk_agent_deployed", "invoke_adk_agent_local", "deploy_to_agentspace",
     "deploy_adk_agent", "adk_agent"}

\* the variables each script module reads with os.getenv
ScriptEnv(sc) ==
    IF sc = "invoke_adk_agent_deployed"
    THEN {"PROJECT_ID", "LOCATION", "ADK_DEPLOYMENT_ID"}
    ELSE IF sc = "deploy_to_agentspace"
    THEN {"PROJECT_ID", "LOCATION", "APP_ID", "ADK_DEPLOYMENT_ID"}
    ELSE IF sc = "deploy_adk_agent"
    THEN {"PROJECT_ID", "PROJECT_NUMBER", "LOCATION", "STAGING_BUCKET"}
    ELSE {"PROJECT_ID", "LOCATION", "STAGING_BUCKET"}

\* a variable is unset (None), set to the empty string, or set to a value
EnvValue(n, state) ==
    IF state = "unset" THEN None
    ELSE IF state = "empty" THEN Str(<<>>)
    ELSE Str(<<"$", n>>)

\* the environments of a script: the variables it does not read stay unset
Environments(sc) ==
    { [n \in EnvNames |-> IF n \in ScriptEnv(sc) THEN EnvValue(n, f[n]) ELSE None] :
          f \in [ScriptEnv(sc) -> {"unset", "empty", "set"}] }

\* --id is absent, given empty, or given a resource name
ArgIds == {None, Str(<<>>), Str(<<"projects/p/locations/l/reasoningEngines/7">>)}

\* bool(v) of a str or None
Truthy(v) == v.ty = "str" /\ v.val # <<>>

Call(op, args) == [op |-> op, args |-> Dict(args)]

\* the outcome of a call: how it ended, and the value it gave
Result(kind, value) == [kind |-> kind, value |-> value]
Gave(value) == Result("returned", value)
Raised == Result("raised", None)
Log(level, text) == [level |-> level, text |-> text]

Init ==
    /\ pc = "main"
    /\ script \in Scripts
    /\ env \in Environments(script)
    /\ arg_id \in IF script = "invoke_adk_agent_deployed" THEN ArgIds ELSE {None}
    /\ stream_events = <<>>
    /\ response_parts = <<>>
    /\ exc = "none"
    /\ stdout = <<>>
    /\ exit_status = -1
    /\ calls = <<>>
    /\ log = <<>>
    /\ agent_resource_name = None
    /\ session = None
    /\ query = 1
    /\ access_token = None
    /\ resource_name = None
    /\ results = <<>>
    /\ success = None
    /\ session_id = None
    /\ events_async = <<>>
    /\ response_text = <<>>
    /\ function_calls = <<>>
    /\ function_responses = <<>>

(***************************************************************************)
(* invoke_adk_agent_deployed.py                                            *)
(***************************************************************************)
\* line 88: the resource name built from the environment
DerivedResourceName ==
    Str(<<"projects/">> \o env["PROJECT_ID"].val \o <<"/locations/">>
        \o env["LOCATION"].val \o <<"/reasoningEngines/">>
        \o env["ADK_DEPLOYMENT_ID"].val)

\* lines 86-88
default_resource_name ==
    IF Truthy(env["PROJECT_ID"]) /\ Truthy(env["LOCATION"])
       /\ Truthy(env["ADK_DEPLOYMENT_ID"])
    THEN DerivedResourceName ELSE None

\* lines 90-96: args.id is the flag's value, the default without the flag
args_id_env_first == IF default_resource_name # None THEN default_resource_name ELSE arg_id

args_id == IF arg_id # None THEN arg_id ELSE default_resource_name

NoIdLines ==
    << Line("Error: No agent resource ID provided.", None),
       Line("Either provide --id argument or ensure ADK_DEPLOYMENT_ID is set in .env file",
            None) >>

\* lines 80-103: the script's entry, up to the call of test_deployed_agent
InvokeMain ==
    /\ pc = "main"
    /\ script = "invoke_adk_agent_deployed"
    /\ IF ~Truthy(args_id)
       THEN /\ stdout' = stdout \o NoIdLines
            /\ exit_status' = 1
            /\ pc' = "exited"
            /\ agent_resource_name' = agent_resource_name
       ELSE /\ agent_resource_name' = args_id
            /\ pc' = "test_deployed_agent"
            /\ UNCHANGED <<stdout, exit_status>>
    /\ UNCHANGED <<stream_events, response_parts, exc, script, env, arg_id, calls,
                   log, session, query, access_token, resource_name, results,
                   success>>
    /\ UNCHANGED adkVars

NumQueries == 5
SessionId == Str(<<"session-1">>)

\* lines 41-60: the header, vertexai.init, and the connection to the agent
Connect ==
    /\ pc = "test_deployed_agent"
    /\ \E outcome \in {"get raises", "create_session raises", "connected"} :
        LET header == << Line("Testing ADK Agent on Agent Engine...", None),
                         Line("====", None),
                         Line("Agent Resource: ", agent_resource_name),
                         Line("====", None) >>
            init == Call("vertexai.init",
                         [project |-> env["PROJECT_ID"], location |-> env["LOCATION"]])
            get == Call("agent_engines.get", [resource_name |-> agent_resource_name])
            create == Call("create_session", [user_id |-> Str(<<"test_user">>)])
        IN  IF outcome = "get raises"
            THEN /\ calls' = calls \o <<init, get>>
                 /\ results' = results \o <<Gave(None), Raised>>
                 /\ stdout' = stdout \o header
                       \o <<Line("Error connecting to deployed agent: ", None)>>
                 /\ session' = session
                 /\ exit_status' = 0
                 /\ pc' = "exited"
            ELSE IF outcome = "create_session raises"
            THEN /\ calls' = calls \o <<init, get, create>>
                 /\ results' = results \o <<Gave(None), Gave(None), Raised>>
                 /\ stdout' = stdout \o header
                       \o << Line("Successfully connected to deployed agent", None),
                             Line("Error connecting to deployed agent: ", None) >>
                 /\ session' = session
                 /\ exit_status' = 0
                 /\ pc' = "exited"
            ELSE /\ calls' = calls \o <<init, get, create>>
                 /\ results' = results
                       \o <<Gave(None), Gave(None), Gave(Dict([id |-> SessionId]))>>
                 /\ session' = Dict([id |-> SessionId])
                 /\ stdout' = stdout \o header
                       \o << Line("Successfully connected to deployed agent", None),
                             Line("Session created: ", SessionId) >>
                 /\ exit_status' = exit_status
                 /\ pc' = "query"
    /\ UNCHANGED <<stream_events, response_parts, exc, script, env, arg_id, log,
                   agent_resource_name, query, access_token, resource_name, success>>
    /\ UNCHANGED adkVars

\* what one stream_query can deliver
QueryStreams ==
    { <<>>,
      << Event(<< CallPart(Dict([name |-> Str(GET_WEATHER), args |-> CityArgs])) >>),
         Event(<< TextPart(Str(<<" ", "h", "i", " ">>)) >>) >>,
      << Dict([content |-> None]) >> }

\* the user the invocation script names in its calls
user_id ==
    IF script = "invoke_adk_agent_local"
    THEN Str(<<"local_test_user">>) ELSE Str(<<"test_user">>)

\* the session id a query is sent with: the id of the session created by
\* this run
session_id_of_earlier_run == Str(<<"session-0">>)

session_id_of_query == session.val["id"]

\* the for statement goes to the next query of the list, whether or not
\* the turn ended in the except clause
next_query_break_on_error(i, failed) == IF failed THEN NumQueries + 1 ELSE i + 1

next_query(i, failed) == i + 1

\* invoke_adk_agent_deployed.py lines 62-74, invoke_adk_agent_local.py lines
\* 40-52: one turn of the loop over the test queries
Query ==
    /\ pc = "query"
    /\ query <= NumQueries
    /\ \E raises \in BOOLEAN : \E events \in QueryStreams :
        LET stream == Call("stream_query",
                           [user_id |-> user_id,
                            session_id |-> session_id_of_query,
                            message |-> PyInt(query)])
            head == <<Line("Test: ", PyInt(query)), Line("----", None)>>
            r == process_stream_response(events)
            d == display_response_parts(r.value)
        IN  /\ raises => events = <<>>
            /\ calls' = Append(calls, stream)
            /\ results' = Append(results,
                  IF raises THEN Raised ELSE Gave(List(events)))
            /\ IF raises
               THEN /\ stdout' = stdout \o head \o <<Line("Error: ", None)>>
                    /\ exc' = "Exception"
                    /\ query' = next_query(query, TRUE)
                    /\ UNCHANGED <<stream_events, response_parts>>
               ELSE IF r.exc # "none"
               THEN /\ stdout' = stdout \o head \o <<Line("Error: ", None)>>
                    /\ exc' = r.exc
                    /\ query' = next_query(query, TRUE)
                    /\ stream_events' = events
                    /\ response_parts' = response_parts
               ELSE /\ stream_events' = events
                    /\ response_parts' = r.value
                    /\ exc' = d.exc
                    /\ query' = next_query(query, d.exc # "none")
                    /\ stdout' = stdout \o head \o d.value
                          \o (IF d.exc = "none" THEN <<>> ELSE <<Line("Error: ", None)>>)
    /\ UNCHANGED <<pc, script, env, arg_id, exit_status, log, agent_resource_name,
                   session, access_token, resource_name, success>>
    /\ UNCHANGED adkVars

\* invoke_adk_agent_deployed.py line 77, invoke_adk_agent_local.py line 55
CompletionLine ==
    IF script = "invoke_adk_agent_local"
    THEN Line("Local invocation with vertexai reasoning engine completed!", None)
    ELSE Line("Deployed agent testing completed!", None)

\* invoke_adk_agent_deployed.py lines 76-77, invoke_adk_agent_local.py lines
\* 54-55: the loop is over
InvokeCompleted ==
    /\ pc = "query"
    /\ query > NumQueries
    /\ stdout' = stdout \o <<Line("====", None), CompletionLine>>
    /\ exit_status' = 0
    /\ pc' = "exited"
    /\ UNCHANGED <<stream_events, response_parts, exc, script, env, arg_id, calls,
                   log, agent_resource_name, session, query, access_token,
                   resource_name, results, success>>
    /\ UNCHANGED adkVars

(***************************************************************************)
(* invoke_adk_agent_local.py                                               *)
(***************************************************************************)
\* test_agent lines 28-38: the header, the app and the session; neither call
\* is inside a try, so an exception ends the process with a traceback
LocalConnect ==
    /\ pc = "test_agent"
    /\ \E outcome \in {"AdkApp raises", "create_session raises", "connected"} :
        LET header == <<Line("Testing ADK Agent locally...", None), Line("====", None)>>
            app == Call("reasoning_engines.AdkApp", [enable_tracing |-> PyBool(TRUE)])
            create == Call("create_session", [user_id |-> user_id])
        IN  /\ stdout' = stdout \o header
            /\ IF outcome = "AdkApp raises"
               THEN /\ calls' = Append(calls, app)
                    /\ results' = Append(results, Raised)
                    /\ session' = session
                    /\ exit_status' = 1
                    /\ pc' = "exited"
               ELSE IF outcome = "create_session raises"
               THEN /\ calls' = calls \o <<app, create>>
                    /\ results' = results \o <<Gave(None), Raised>>
                    /\ session' = session
                    /\ exit_status' = 1
                    /\ pc' = "exited"
               ELSE /\ calls' = calls \o <<app, create>>
                    /\ results' = results \o <<Gave(None), Gave(Dict([id |-> SessionId]))>>
                    /\ session' = Dict([id |-> SessionId])
                    /\ exit_status' = exit_status
                    /\ pc' = "query"
    /\ UNCHANGED <<stream_events, response_parts, exc, script, env, arg_id, log,
                   agent_resource_name, query, access_token, resource_name, success>>
    /\ UNCHANGED adkVars

(***************************************************************************)
(* deploy_to_agentspace.py                                                 *)
(***************************************************************************)
\* the end of main, lines 220-228, for the result of deploy_to_agentspace
MainResult(succeeded) ==
    IF succeeded
    THEN <<Log("INFO", "Deployment completed successfully!")>>
    ELSE <<Log("ERROR", "Deployment failed. Please check the errors above.")>>

\* what gcloud can write to its standard output when it exits with status 0
GcloudOutputs == { <<>>, <<" ", "\n">>, <<"t", "o", "k", "e", "n", "\n">> }

\* line 50: if token
token_found_always(token) == TRUE

token_found(token) == token # <<>>

\* main lines 201-218 and get_access_token lines 41-56: the gcloud CLI
GetTokenGcloud ==
    /\ pc = "main"
    /\ script = "deploy_to_agentspace"
    /\ \E outcome \in {"ran", "CalledProcessError", "FileNotFoundError"} :
       \E out \in GcloudOutputs :
        LET start == << Log("INFO", "Starting Agentspace deployment..."),
                        Log("INFO", "Configuration:") >>
            token == strip(out)
        IN  /\ outcome # "ran" => out = <<>>
            /\ calls' = Append(calls, Call("gcloud auth print-access-token", EmptyMap))
            /\ results' = Append(results,
                  Result(outcome, IF outcome = "ran" THEN Str(out) ELSE None))
            /\ IF outcome = "ran" /\ token_found(token)
               THEN /\ access_token' = Str(token)
                    /\ log' = log \o start
                          \o <<Log("INFO", "Successfully obtained access token")>>
                    /\ pc' = "post"
               ELSE /\ access_token' = access_token
                    /\ pc' = "adc"
                    /\ log' = log \o start \o
                          (IF outcome = "CalledProcessError"
                           THEN <<Log("ERROR", "Failed to get access token via gcloud")>>
                           ELSE IF outcome = "FileNotFoundError"
                           THEN <<Log("ERROR", "gcloud CLI not found. Please install Google Cloud SDK.")>>
                           ELSE <<>>)
    /\ UNCHANGED <<stream_events, response_parts, exc, stdout, script, env, arg_id,
                   exit_status, agent_resource_name, session, query, resource_name,
                   success>>
    /\ UNCHANGED adkVars

\* get_access_token lines 58-73, deploy_to_agentspace lines 94-97
GetTokenADC ==
    /\ pc = "adc"
    /\ \E outcome \in {"token", "no token", "exception"} :
        /\ calls' = Append(calls, Call("google.auth.default", EmptyMap))
        /\ results' = Append(results,
              Result(outcome, IF outcome = "token" THEN Str(<<"adc-token">>) ELSE None))
        /\ IF outcome = "token"
           THEN /\ access_token' = Str(<<"adc-token">>)
                /\ success' = success
                /\ log' = Append(log, Log("INFO", "Successfully obtained access token via ADC"))
                /\ pc' = "post"
                /\ exit_status' = exit_status
           ELSE /\ access_token' = None
                /\ success' = PyBool(FALSE)
                /\ log' = log
                      \o (IF outcome = "exception"
                          THEN <<Log("ERROR", "Failed to get access token via ADC")>>
                          ELSE <<>>)
                      \o <<Log("ERROR", "Unable to obtain access token. Cannot proceed with deployment.")>>
                      \o MainResult(FALSE)
                /\ exit_status' = 1
                /\ pc' = "exited"
    /\ UNCHANGED <<stream_events, response_parts, exc, stdout, script, env, arg_id,
                   agent_resource_name, session, query, resource_name>>
    /\ UNCHANGED adkVars

\* the answers of the registration endpoint, and the exceptions of the request
Statuses == {200, 201, 400, 403, 404, 500}
PostOutcomes ==
    { [kind |-> "response", status |-> st, json |-> j] :
          st \in Statuses, j \in BOOLEAN }
    \cup { [kind |-> k, status |-> 0, json |-> FALSE] :
          k \in {"Timeout", "RequestException", "Exception"} }

\* lines 149-154: the outcome of the request as the history of calls keeps it:
\* the status code of a response, and whether its body decodes as JSON
PostAnswer(o) ==
    Result(IF o.kind = "response" /\ ~o.json THEN "response, body not JSON" ELSE o.kind,
           PyInt(o.status))

\* lines 172-184: the remediation text of a status
Remediation(status) ==
    IF status = 404 THEN <<Log("ERROR", "The app or endpoint was not found. Please check:")>>
    ELSE IF status = 403 THEN <<Log("ERROR", "Permission denied. Please check:")>>
    ELSE IF status = 400 THEN <<Log("ERROR", "Bad request. Please check:")>>
    ELSE <<>>

\* lines 147-196: what the request's outcome logs, and the result returned
PostResult(o) ==
    IF o.kind = "Timeout"
    THEN [success |-> FALSE,
          log |-> <<Log("ERROR", "Request timed out. The deployment might still be in progress.")>>]
    ELSE IF o.kind = "RequestException"
    THEN [success |-> FALSE, log |-> <<Log("ERROR", "Request failed")>>]
    ELSE IF o.kind = "Exception"
    THEN [success |-> FALSE, log |-> <<Log("ERROR", "Unexpected error")>>]
    ELSE IF o.status = 200 \/ o.status = 201
    THEN IF o.json
         THEN [success |-> TRUE,
               log |-> <<Log("INFO", "Successfully deployed agent to Agentspace!")>>]
         ELSE [success |-> FALSE,
               log |-> << Log("INFO", "Successfully deployed agent to Agentspace!"),
                          Log("ERROR", "Request failed") >>]
    ELSE [success |-> FALSE,
          log |-> <<Log("ERROR", "Deployment failed with status code")>>
                  \o Remediation(o.status)]

\* deploy_to_agentspace lines 99-196 and main lines 220-228
PostRegistration ==
    /\ pc = "post"
    /\ \E o \in PostOutcomes :
        LET r == PostResult(o) IN
        /\ calls' = Append(calls,
              Call("requests.post",
                   [project_id |-> env["PROJECT_ID"],
                    app_id |-> env["APP_ID"],
                    adk_deployment_id |-> env["ADK_DEPLOYMENT_ID"],
                    adk_location |-> env["LOCATION"],
                    access_token |-> access_token]))
        /\ results' = Append(results, PostAnswer(o))
        /\ log' = log \o <<Log("INFO", "Deploying agent to Agentspace...")>>
                      \o r.log \o MainResult(r.success)
        /\ success' = PyBool(r.success)
        /\ exit_status' = IF r.success THEN 0 ELSE 1
    /\ pc' = "exited"
    /\ UNCHANGED <<stream_events, response_parts, exc, stdout, script, env, arg_id,
                   agent_resource_name, session, query, access_token, resource_name>>
    /\ UNCHANGED adkVars

(***************************************************************************)
(* deploy_adk_agent.py, and the module adk_agent it imports                *)
(***************************************************************************)
\* adk_agent.py lines 13-25, run by the import at deploy_adk_agent.py line 21
\* and invoke_adk_agent_local.py line 7, or by running adk_agent.py itself
ImportAdkAgent ==
    /\ pc = "main"
    /\ script \in {"deploy_adk_agent", "invoke_adk_agent_local", "adk_agent"}
    /\ calls' = Append(calls,
          Call("vertexai.init",
               [project |-> env["PROJECT_ID"],
                location |-> env["LOCATION"],
                staging_bucket |-> env["STAGING_BUCKET"]]))
    /\ results' = Append(results, Gave(None))
    /\ pc' = IF script = "deploy_adk_agent" THEN "deploy_agent"
             ELSE IF script = "invoke_adk_agent_local" THEN "test_agent"
             ELSE "adk_main"
    /\ UNCHANGED <<stream_events, response_parts, exc, stdout, script, env, arg_id,
                   exit_status, log, agent_resource_name, session, query,
                   access_token, resource_name, success>>
    /\ UNCHANGED adkVars

CreatedResourceName == Str(<<"projects/1/locations/l/reasoningEngines/9">>)

\* main lines 176-178, deploy_agent lines 108-138 and 168-171,
\* generate_requirements lines 55-93
CreateAgent ==
    /\ pc = "deploy_agent"
    /\ \E uv \in {"exported", "CalledProcessError", "FileNotFoundError"} :
       \E create \in {"created", "raises"} :
        LET start == << Log("INFO", "Starting agent deployment..."),
                        Log("INFO", "Creating deployment package..."),
                        Log("INFO", "Generating requirements using uv export...") >>
            failed == << Log("ERROR", "Deployment failed"),
                         Log("ERROR", "Please check your permissions and configuration") >>
            creation == Call("agent_engines.create",
                             [PROJECT_ID |-> env["PROJECT_ID"],
                              LOCATION |-> env["LOCATION"]])
        IN  /\ uv = "FileNotFoundError" => create = "raises"
            /\ IF uv = "FileNotFoundError"
               THEN /\ calls' = Append(calls, Call("uv export", EmptyMap))
                    /\ results' = Append(results, Result(uv, None))
                    /\ log' = log \o start \o failed
                    /\ exit_status' = 1
                    /\ pc' = "exited"
                    /\ resource_name' = resource_name
               ELSE LET reqs == IF uv = "exported"
                                THEN <<Log("INFO", "Generated requirements")>>
                                ELSE << Log("ERROR", "Failed to generate requirements"),
                                        Log("WARNING", "Falling back to essential requirements...") >>
                    IN  /\ calls' = calls \o <<Call("uv export", EmptyMap), creation>>
                        /\ results' = results
                              \o << Result(uv, None),
                                     IF create = "raises" THEN Raised
                                     ELSE Gave(CreatedResourceName) >>
                        /\ IF create = "raises"
                           THEN /\ log' = log \o start \o reqs
                                      \o <<Log("INFO", "Deploying agent to Agent Engine...")>>
                                      \o failed
                                /\ exit_status' = 1
                                /\ pc' = "exited"
                                /\ resource_name' = resource_name
                           ELSE /\ log' = log \o start \o reqs
                                      \o << Log("INFO", "Deploying agent to Agent Engine..."),
                                            Log("INFO", "Successfully deployed agent!") >>
                                /\ resource_name' = CreatedResourceName
                                /\ exit_status' = exit_status
                                /\ pc' = "smoke_test"
    /\ UNCHANGED <<stream_events, response_parts, exc, stdout, script, env, arg_id,
                   agent_resource_name, session, query, access_token, success>>
    /\ UNCHANGED adkVars

\* line 166: deploy_agent returns the name of the created agent, whatever
\* the test of it did
deploy_agent_result_none_when_test_raises(created, outcome) ==
    IF outcome \in {"create_session raises", "stream_query raises"} THEN None ELSE created

deploy_agent_result(created, outcome) == created

\* deploy_agent lines 140-166 and main lines 179-187
SmokeTest ==
    /\ pc = "smoke_test"
    /\ \E outcome \in {"create_session raises", "stream_query raises", "no events", "events"} :
        LET create == Call("create_session", [user_id |-> Str(<<"deployment_test">>)])
            stream == Call("stream_query",
                           [user_id |-> Str(<<"deployment_test">>),
                            session_id |-> SessionId,
                            message |-> Str(<<"What's the weather in New York?">>)])
            warn == << Log("WARNING", "Test query failed"),
                       Log("INFO", "Agent deployed but test failed - you may need to check permissions") >>
        IN  /\ calls' = IF outcome = "create_session raises"
                        THEN Append(calls, create)
                        ELSE calls \o <<create, stream>>
            /\ results' = IF outcome = "create_session raises"
                          THEN Append(results, Raised)
                          ELSE results
                               \o << Gave(Dict([id |-> SessionId])),
                                      IF outcome = "stream_query raises" THEN Raised
                                      ELSE IF outcome = "no events" THEN Gave(List(<<>>))
                                      ELSE Gave(List(<<Dict([content |-> None])>>)) >>
            /\ log' = log \o <<Log("INFO", "Testing deployed agent...")>>
                  \o (IF outcome = "create_session raises" THEN warn
                      ELSE IF outcome = "stream_query raises"
                      THEN <<Log("INFO", "Created test session")>> \o warn
                      ELSE IF outcome = "no events"
                      THEN << Log("INFO", "Created test session"),
                              Log("WARNING", "Test query returned no response") >>
                      ELSE << Log("INFO", "Created test session"),
                              Log("INFO", "Test query successful!") >>)
                  \o (IF Truthy(deploy_agent_result(resource_name, outcome))
                      THEN <<Log("INFO", "Deployment successful!")>> ELSE <<>>)
            /\ resource_name' = deploy_agent_result(resource_name, outcome)
            /\ exit_status' = IF Truthy(deploy_agent_result(resource_name, outcome))
                              THEN 0 ELSE 1
    /\ pc' = "exited"
    /\ UNCHANGED <<stream_events, response_parts, exc, stdout, script, env, arg_id,
                   agent_resource_name, session, query, access_token, success>>
    /\ UNCHANGED adkVars

(***************************************************************************)
(* adk_agent.py run as a script: main, lines 118-228.                      *)
(***************************************************************************)
NumDemoQueries == 4

\* line 148: uuid4 gives the session of each query an id of its own
UuidHex == <<"0a1b2c3d", "4e5f6a7b", "8c9d0e1f", "2a3b4c5d">>
FreshSessionId(i) == Str(<<"session_", UuidHex[i]>>)
DemoUser == Str(<<"demo_user">>)
AppName == Str(<<"native_adk_agent_tools">>)

\* obj.name of an event, a content or a part: a field that is not set is None
attr(obj, name) == IF obj.ty = "dict" /\ HasKey(obj, name) THEN obj.val[name] ELSE None

\* what run_async can deliver for one query
DemoStreams ==
    { << Event(<< CallPart(Dict([name |-> Str(GET_WEATHER), args |-> CityArgs])) >>),
         Event(<< ResponsePart >>),
         Event(<< TextPart(Str(<<" ", "h", "i", " ">>)) >>) >>,
      << Event(<< TextPart(Str(<<"a">>)),
                  CallPart(Dict([name |-> Str(GET_WEATHER), args |-> CityArgs])) >>),
         Dict([content |-> None]),
         Event(<< TextPart(Str(<<" ">>)) >>) >>,
      <<>>,
      << Event(<< CallPart(Dict([name |-> Str(GET_WEATHER), args |-> CityArgs])) >>),
         Dict([content |-> Dict([parts |-> None])]) >> }

\* what the loop body has printed and collected: out is the lines printed
\* for the event at hand
Collected(out, text, fcalls, fresponses) ==
    [out |-> out, text |-> text, calls |-> fcalls, responses |-> fresponses]

\* lines 180-198 with the line of a function call left to the summary
consume_part_call_in_summary_only(acc, part) ==
    LET text == attr(part, "text")
        call == attr(part, "function_call")
    IN  IF Truthy(text)
        THEN IF strip(text.val) # <<>>
             THEN [acc EXCEPT !.out = Append(@, Line("text chunk", Str(strip(text.val)))),
                              !.text = @ \o strip(text.val) \o <<" ">>]
             ELSE acc
        ELSE IF call # None
        THEN [acc EXCEPT !.calls = Append(@, Dict([name |-> attr(call, "name"),
                                                   args |-> attr(call, "args")]))]
        ELSE acc

\* lines 180-198: one part of an event
consume_part(acc, part) ==
    LET text == attr(part, "text")
        call == attr(part, "function_call")
        resp == attr(part, "function_response")
    IN  IF Truthy(text)
        THEN LET text_chunk == strip(text.val)
             IN  IF text_chunk # <<>>
                 THEN [acc EXCEPT !.out = Append(@, Line("text chunk", Str(text_chunk))),
                                  !.text = @ \o text_chunk \o <<" ">>]
                 ELSE acc
        ELSE IF call # None
        THEN LET call_info == Dict([name |-> attr(call, "name"),
                                    args |-> attr(call, "args")])
             IN  [acc EXCEPT !.calls = Append(@, call_info),
                             !.out = Append(@, Line("[Calling ...]", call_info.val["name"]))]
        ELSE IF resp # None
        THEN LET resp_info == Dict([name |-> attr(resp, "name"),
                                    response |-> attr(resp, "response")])
             IN  [acc EXCEPT !.responses = Append(@, resp_info),
                             !.out = Append(@, Line("[... completed]", resp_info.val["name"]))]
        ELSE acc

\* line 179: the parts of an event, in order
RECURSIVE consume_parts(_, _)
consume_parts(acc, parts) ==
    IF parts = <<>> THEN acc
    ELSE consume_parts(consume_part(acc, Head(parts)), Tail(parts))

\* lines 178-179: an event without content is passed over; a content whose
\* parts is None cannot be iterated
consume_event(acc, event) ==
    LET content == attr(event, "content")
    IN  IF content = None THEN Ok(acc)
        ELSE IF attr(content, "parts").ty # "list" THEN Raise("TypeError")
        ELSE Ok(consume_parts(acc, attr(content, "parts").val))

\* lines 121-132: the runner and the banner
DemoStart ==
    /\ pc = "adk_main"
    /\ stdout' = stdout \o <<Line("Running ADK Agent Demo...", None), Line("====", None)>>
    /\ pc' = "demo"
    /\ UNCHANGED <<stream_events, response_parts, exc, script, env, arg_id,
                   exit_status, calls, log, agent_resource_name, session, query,
                   access_token, resource_name, results, success, adkVars>>

\* lines 142-175: the head of one turn of the loop over the demo queries
StartQuery ==
    /\ pc = "demo"
    /\ query <= NumDemoQueries
    /\ \E found \in BOOLEAN : \E events \in DemoStreams :
        LET id == FreshSessionId(query)
            key == [app_name |-> AppName, user_id |-> DemoUser, session_id |-> id]
            head == << Line("====", None), Line("Query: ", PyInt(query)),
                       Line("----", None) >>
            run == Call("run_async",
                        [session_id |-> id, user_id |-> DemoUser,
                         new_message |-> PyInt(query)])
        IN  /\ ~found => events = <<>>
            /\ session_id' = id
            /\ IF ~found
               THEN /\ calls' = calls \o <<Call("create_session", key), Call("get_session", key)>>
                    /\ results' = results \o <<Gave(Dict([id |-> id])), Gave(None)>>
                    /\ stdout' = stdout \o head
                          \o <<Line("Warning: Session not found after creation", id)>>
                    /\ query' = query + 1
                    /\ pc' = pc
                    /\ UNCHANGED <<events_async, response_text, function_calls,
                                   function_responses>>
               ELSE /\ calls' = calls
                          \o <<Call("create_session", key), Call("get_session", key), run>>
                    /\ results' = results
                          \o << Gave(Dict([id |-> id])), Gave(Dict([id |-> id])),
                                Gave(List(events)) >>
                    /\ stdout' = stdout \o head \o <<Line("Streaming response...", None)>>
                    /\ response_text' = <<>>
                    /\ function_calls' = <<>>
                    /\ function_responses' = <<>>
                    /\ events_async' = events
                    /\ query' = query
                    /\ pc' = "streaming"
    /\ UNCHANGED <<stream_events, response_parts, exc, script, env, arg_id,
                   exit_status, log, agent_resource_name, session, access_token,
                   resource_name, success>>

\* lines 177-198: the next event arrives and its parts are handled; an
\* exception is caught nowhere and ends the process
ConsumeEvent ==
    /\ pc = "streaming"
    /\ events_async # <<>>
    /\ LET r == consume_event(
                    Collected(<<>>, response_text, function_calls, function_responses),
                    Head(events_async))
       IN  /\ exc' = r.exc
           /\ IF r.exc # "none"
              THEN /\ exit_status' = 1
                   /\ pc' = "exited"
                   /\ UNCHANGED <<stdout, response_text, function_calls,
                                  function_responses>>
              ELSE /\ stdout' = stdout \o r.value.out
                   /\ response_text' = r.value.text
                   /\ function_calls' = r.value.calls
                   /\ function_responses' = r.value.responses
                   /\ UNCHANGED <<exit_status, pc>>
    /\ events_async' = Tail(events_async)
    /\ UNCHANGED <<stream_events, response_parts, script, env, arg_id, calls, log,
                   agent_resource_name, session, query, access_token, resource_name,
                   results, success, session_id>>

\* lines 203-211: the lines of a summary
SummaryLines(title, item, infos) ==
    IF infos = <<>> THEN <<>>
    ELSE <<Line(title, None)>> \o [k \in DOMAIN infos |-> Line(item, infos[k])]

\* lines 200-216: the stream is over, the summaries are printed
EndOfStream ==
    /\ pc = "streaming"
    /\ events_async = <<>>
    /\ stdout' = stdout \o <<Line("----", None)>>
          \o SummaryLines("Function calls summary:", "  - call", function_calls)
          \o SummaryLines("Function responses summary:", "  - response", function_responses)
          \o (IF strip(response_text) = <<>>
              THEN <<Line("No text response received", None)>> ELSE <<>>)
          \o <<Line("====", None)>>
    /\ query' = query + 1
    /\ pc' = "demo"
    /\ UNCHANGED <<stream_events, response_parts, exc, script, env, arg_id,
                   exit_status, calls, log, agent_resource_name, session,
                   access_token, resource_name, results, success, adkVars>>

\* lines 223-228: main has returned
DemoCompleted ==
    /\ pc = "demo"
    /\ query > NumDemoQueries
    /\ stdout' = stdout \o <<Line("====", None), Line("Local demo completed!", None)>>
    /\ exit_status' = 0
    /\ pc' = "exited"
    /\ UNCHANGED <<stream_events, response_parts, exc, script, env, arg_id, calls,
                   log, agent_resource_name, session, query, access_token,
                   resource_name, results, success, adkVars>>

Next ==
    \/ InvokeMain
    \/ Connect
    \/ Query
    \/ InvokeCompleted
    \/ LocalConnect
    \/ GetTokenGcloud
    \/ GetTokenADC
    \/ PostRegistration
    \/ ImportAdkAgent
    \/ CreateAgent
    \/ SmokeTest
    \/ DemoStart
    \/ StartQuery
    \/ ConsumeEvent
    \/ EndOfStream
    \/ DemoCompleted

Spec == Init /\ [][Next]_vars

(***************************************************************************)
(* Properties of the scripts, under Spec.                                  *)
(***************************************************************************)
Invoking == script = "invoke_adk_agent_deployed" /\ pc # "main"

\* the run goes on with resource name n: test_deployed_agent gets it, and it
\* is the name the agent is fetched by
UsesName(n) ==
    /\ agent_resource_name = n
    /\ exit_status # 1
    /\ \A k \in DOMAIN calls :
          calls[k].op = "agent_engines.get" => calls[k].args.val["resource_name"] = n
    /\ pc # "test_deployed_agent" =>
          \E k \in DOMAIN calls : calls[k].op = "agent_engines.get"

\* the run ended at the check of args.id: the message, status 1, no call made
ExitedWithoutContact ==
    /\ pc = "exited"
    /\ exit_status = 1
    /\ calls = <<>>
    /\ stdout = NoIdLines
    /\ agent_resource_name = None

EnvDerivable == \A n \in {"PROJECT_ID", "LOCATION", "ADK_DEPLOYMENT_ID"} : Truthy(env[n])

\* C9 as stated: the name used is the value of --id when one is given,
\* otherwise the name derived from the three variables when all three are
\* set; with neither the script prints its message and exits with status 1
\* without a call to the platform.  (A value is taken as given, or set, when
\* it is not empty.)
C9_IdOrDerivedOrExit ==
    Invoking =>
        IF Truthy(arg_id) THEN UsesName(arg_id)
        ELSE IF EnvDerivable THEN UsesName(DerivedResourceName)
        ELSE ExitedWithoutContact

\* C9 as amended: the name used is the value of --id when the flag is given
\* with a non-empty value; without the flag it is the name derived from the
\* three variables when all three are set and non-empty; in every other case
\* (the flag given with an empty value, or no flag and a variable unset or
\* empty) the script prints its message and exits with status 1 without a
\* call to the platform.
C9_NonEmptyIdOrDerivedOrExit ==
    Invoking =>
        IF arg_id # None /\ arg_id.val # <<>> THEN UsesName(arg_id)
        ELSE IF arg_id = None /\ EnvDerivable
        THEN UsesName(Str(<<"projects/", "$", "PROJECT_ID", "/locations/", "$",
                            "LOCATION", "/reasoningEngines/", "$",
                            "ADK_DEPLOYMENT_ID">>))
        ELSE ExitedWithoutContact

C9_Witness ==
    /\ script = "invoke_adk_agent_deployed"
    /\ pc = "query"
    /\ EnvDerivable
    /\ arg_id # None
    /\ agent_resource_name = arg_id
    /\ agent_resource_name # DerivedResourceName
    /\ calls[2] = Call("agent_engines.get", [resource_name |-> arg_id])

\* the environment values a script cannot do without
RequiredEnv(sc) ==
    IF sc = "deploy_to_agentspace"
    THEN {"PROJECT_ID", "LOCATION", "APP_ID", "ADK_DEPLOYMENT_ID"}
    ELSE IF sc = "deploy_adk_agent"
    THEN {"PROJECT_ID", "LOCATION", "STAGING_BUCKET"}
    ELSE {}

\* the token request, the registration POST and the agent creation
ExternalOperations ==
    {"gcloud auth print-access-token", "google.auth.default", "requests.post",
     "agent_engines.create"}

\* C10: when a required environment value is missing the run ends with an
\* error and a non-zero exit status, and no external operation is started
\* with the missing value.
C10_MissingEnvStopsRun ==
    (\E n \in RequiredEnv(script) : env[n] = None) =>
        /\ exit_status # 0
        /\ \A k \in DOMAIN calls :
              calls[k].op \in ExternalOperations =>
                  \A a \in DOMAIN calls[k].args.val : calls[k].args.val[a] # None

(***************************************************************************)
(* Properties of deploy_to_agentspace.py, under Spec.                      *)
(***************************************************************************)
Registering == script = "deploy_to_agentspace"

\* the registration POST was issued, and the endpoint answered it
PostAnswered ==
    /\ calls # <<>>
    /\ calls[Len(calls)].op = "requests.post"
    /\ results[Len(results)].kind \in {"response", "response, body not JSON"}

AnsweredStatus == results[Len(results)].value.val[1]

RemediationLines ==
    { Log("ERROR", "The app or endpoint was not found. Please check:"),
      Log("ERROR", "Permission denied. Please check:"),
      Log("ERROR", "Bad request. Please check:") }

LoggedRemediation == { log[k] : k \in DOMAIN log } \cap RemediationLines

\* C11: deploy_to_agentspace returns True exactly when the registration POST
\* was answered with status 200 or 201, and False for every other status, a
\* timeout or any other exception; of the other statuses 400, 403 and 404
\* get their own remediation text and no other status gets one; a False
\* result makes the script exit with status 1.
C11_TrueIffStatus200Or201 ==
    (Registering /\ success # None) =>
        /\ success = PyBool(TRUE) <=> (PostAnswered /\ AnsweredStatus \in {200, 201})
        /\ success = PyBool(FALSE) => exit_status = 1
        /\ LoggedRemediation =
              IF PostAnswered /\ AnsweredStatus = 404
              THEN {Log("ERROR", "The app or endpoint was not found. Please check:")}
              ELSE IF PostAnswered /\ AnsweredStatus = 403
              THEN {Log("ERROR", "Permission denied. Please check:")}
              ELSE IF PostAnswered /\ AnsweredStatus = 400
              THEN {Log("ERROR", "Bad request. Please check:")}
              ELSE {}

(***************************************************************************)
(* Containment of failures, under Spec.                                    *)
(***************************************************************************)
InvocationScripts == {"invoke_adk_agent_deployed", "invoke_adk_agent_local"}

\* the positions in calls of the queries sent, and the rank of one of them
QueryIndexes == { k \in DOMAIN calls : calls[k].op = "stream_query" }
Rank(i) == Cardinality({ j \in QueryIndexes : j <= i })

\* the turn of the query at position i ended in the except clause: the
\* streaming raised, or the processing or the display of its events did
TurnFailed(i) ==
    \/ results[i] = Raised
    \/ LET r == process_stream_response(results[i].value.val)
       IN  r.exc # "none" \/ display_response_parts(r.value).exc # "none"

Diagnostics == { k \in DOMAIN stdout : stdout[k] = Line("Error: ", None) }

\* deploy_agent failed before the agent existed
CreationFailed ==
    \E k \in DOMAIN calls :
        \/ calls[k].op = "agent_engines.create" /\ results[k] = Raised
        \/ calls[k].op = "uv export" /\ results[k].kind = "FileNotFoundError"

RunningDemo == script = "adk_agent"

\* the lines a step prints
Appended == SubSeq(stdout', Len(stdout) + 1, Len(stdout'))

\* the step consumes the next event of the stream, up to the end of its parts
ConsumesEvent == pc = "streaming" /\ events_async # <<>> /\ exc' = "none"

\* the parts an event brings
PartsOfEvent(event) ==
    IF attr(event, "content") = None THEN <<>>
    ELSE IF attr(attr(event, "content"), "parts").ty # "list" THEN <<>>
    ELSE attr(attr(event, "content"), "parts").val

RECURSIVE PartsOfEvents(_)
PartsOfEvents(events) ==
    IF events = <<>> THEN <<>>
    ELSE PartsOfEvent(Head(events)) \o PartsOfEvents(Tail(events))

\* a part is shown as text when its text is not empty, and as a function
\* call when it holds a call and no text
ShownAsCall(part) == ~Truthy(attr(part, "text")) /\ attr(part, "function_call") # None
CallInfo(part) ==
    Dict([name |-> attr(attr(part, "function_call"), "name"),
          args |-> attr(attr(part, "function_call"), "args")])

IsBlank(s) == \A k \in DOMAIN s : IsSpace(s[k])

\* a line that displays a text part or a function-call part
ShowsTextOrCall(line) == line.text \in {"text chunk", "[Calling ...]", "  - call"}

\* the line of a text or function-call part in the streaming output: none for
\* a text that is blank, and none for a call that comes with a text
RECURSIVE StreamingLines(_)
StreamingLines(parts) ==
    IF parts = <<>> THEN <<>>
    ELSE LET p == Head(parts)
             line == IF Truthy(attr(p, "text"))
                     THEN IF IsBlank(attr(p, "text").val) THEN <<>>
                          ELSE <<Line("text chunk", Str(strip(attr(p, "text").val)))>>
                     ELSE IF ShownAsCall(p)
                     THEN <<Line("[Calling ...]", CallInfo(p).val["name"])>>
                     ELSE <<>>
         IN  line \o StreamingLines(Tail(parts))

\* C13: the output for each text or function-call part of an event is
\* emitted when that event is consumed, before the next event is awaited,
\* with no buffering of parts across events: a step prints a line that
\* displays a text or function-call part only while it consumes an event,
\* and the lines it prints for such parts are those of that event, in order.
C13_OutputWhenConsumed ==
    [][ RunningDemo =>
          IF ConsumesEvent
          THEN SelectSeq(Appended, ShowsTextOrCall)
                   = StreamingLines(PartsOfEvent(Head(events_async)))
          ELSE SelectSeq(Appended, ShowsTextOrCall) = <<>> ]_vars

\* the events of the query that is being streamed: what run_async delivers
EventsOfQuery == results[Len(results)].value.val

IsSummaryOfCall(line) == line.text = "  - call"
IsStreamingLine(line) == line.text \in {"text chunk", "[Calling ...]"}
CallSummary(part) == Line("  - call", CallInfo(part))

\* C13 as amended: the streaming line of each text part that is not blank
\* and of each function-call part without text is printed by the step that
\* consumes its event, in the order of the parts, before the next event is
\* awaited; a blank text prints nothing.  The function calls are also kept
\* across the events of a query, and each is displayed a second time, with
\* its arguments, in the summary printed when the stream has ended, in
\* arrival order.  No other step displays a text or function-call part.
C13_StreamingLinesWhenConsumed ==
    [][ RunningDemo =>
          IF ConsumesEvent
          THEN SelectSeq(Appended, ShowsTextOrCall)
                   = StreamingLines(PartsOfEvent(Head(events_async)))
          ELSE IF pc = "streaming" /\ events_async = <<>>
          THEN /\ SelectSeq(Appended, IsStreamingLine) = <<>>
               /\ LET shown == SelectSeq(PartsOfEvents(EventsOfQuery), ShownAsCall)
                  IN  SelectSeq(Appended, IsSummaryOfCall)
                          = [k \in DOMAIN shown |-> CallSummary(shown[k])]
          ELSE SelectSeq(Appended, ShowsTextOrCall) = <<>> ]_vars

\* a query whose call was announced while its event was consumed, whose text
\* followed with a later event, and whose summary then displayed the call
\* again
C13_Witness ==
    /\ RunningDemo
    /\ pc = "demo"
    /\ \E i, j, k \in DOMAIN stdout :
          /\ i < j /\ j < k
          /\ stdout[i] = Line("[Calling ...]", Str(GET_WEATHER))
          /\ stdout[j] = Line("text chunk", Str(<<"h", "i">>))
          /\ stdout[k] = Line("  - call", Dict([name |-> Str(GET_WEATHER), args |-> CityArgs]))

(***************************************************************************)
(* Sessions, under Spec.                                                   *)
(***************************************************************************)
\* the call at position k sends a query to an agent
SendsQuery(k) == calls[k].op \in {"stream_query", "run_async"}

\* the call at position j created a session, and id is the id of it
CreatedSession(j, id) ==
    /\ calls[j].op = "create_session"
    /\ results[j].kind = "returned"
    /\ results[j].value = Dict([id |-> id])

\* connecting to the deployed agent, or creating the session, raised
ConnectionFailed ==
    \E k \in DOMAIN calls :
        /\ calls[k].op \in {"agent_engines.get", "create_session"}
        /\ results[k] = Raised

IsGcloud(k) == calls[k].op = "gcloud auth print-access-token"
IsADC(k) == calls[k].op = "google.auth.default"
IsPost(k) == calls[k].op = "requests.post"

\* gcloud ran and wrote something other than white space
GcloudYieldedToken ==
    /\ calls # <<>>
    /\ IsGcloud(1)
    /\ results[1].kind = "ran"
    /\ ~IsBlank(results[1].value.val)

\* get_access_token has returned
TokenCallOver == pc \in {"post", "exited"}

\* C15: the gcloud CLI is tried first, and the default credentials are tried
\* exactly when gcloud failed, was not found or wrote an empty token, right
\* after it; the token gcloud wrote is returned trimmed; None is returned
\* exactly when neither path yields a token, and then deploy_to_agentspace
\* returns False, the script exits with status 1 and no registration POST
\* is ever issued.
C15_GcloudThenDefaultCredentials ==
    Registering =>
        /\ \A k \in DOMAIN calls : IsGcloud(k) => k = 1
        /\ \A k \in DOMAIN calls : IsADC(k) => (k = 2 /\ IsGcloud(1) /\ ~GcloudYieldedToken)
        /\ \A k \in DOMAIN calls : IsPost(k) => Truthy(access_token)
        /\ TokenCallOver =>
              /\ GcloudYieldedToken =>
                    (access_token # None /\ IsTrimOf(access_token.val, results[1].value.val))
              /\ ~GcloudYieldedToken => (Len(calls) >= 2 /\ IsADC(2))
              /\ access_token = None <=>
                    (~GcloudYieldedToken /\ results[2].kind # "token")
              /\ access_token = None =>
                    /\ success = PyBool(FALSE)
                    /\ pc = "exited"
                    /\ exit_status = 1
                    /\ \A k \in DOMAIN calls : ~IsPost(k)

\* gcloud wrote white space only, the default credentials raised: no token,
\* the run is over with status 1 after these two calls
C15_Witness ==
    /\ Registering
    /\ pc = "exited"
    /\ Len(calls) = 2
    /\ results[1] = Result("ran", Str(<<" ", "\n">>))
    /\ IsADC(2)
    /\ results[2].kind = "exception"
    /\ access_token = None
    /\ exit_status = 1

(***************************************************************************)
(* The smoke test of deploy_adk_agent.py, under Spec.                      *)
(***************************************************************************)
Deploying == script = "deploy_adk_agent"

\* the call at position k created the agent
CreatedAgent(k) == calls[k].op = "agent_engines.create" /\ results[k].kind = "returned"

IsSmokeTestCall(k) == calls[k].op \in {"create_session", "stream_query"}

\* C16: once the creation of the agent has succeeded, deploy_agent returns
\* the created resource name and the script does not exit with status 1,
\* whether the test session or the test query raised, the query returned no
\* event or the test succeeded: the run ends after the test with status 0
\* and the success message.  The calls of the smoke test are made only
\* after a creation that succeeded.
C16_SmokeTestKeepsResult ==
    Deploying =>
        /\ \A k \in DOMAIN calls :
              CreatedAgent(k) =>
                  /\ resource_name = results[k].value
                  /\ resource_name # None
                  /\ exit_status # 1
                  /\ pc = "exited" =>
                        /\ exit_status = 0
                        /\ \E t \in (k + 1)..Len(calls) : IsSmokeTestCall(t)
                        /\ log[Len(log)] = Log("INFO", "Deployment successful!")
        /\ \A t \in DOMAIN calls :
              IsSmokeTestCall(t) => \E k \in 1..(t - 1) : CreatedAgent(k)

\* the agent was created and the test query raised: the run is over with
\* the created name as its result and status 0
C16_Witness ==
    /\ Deploying
    /\ pc = "exited"
    /\ \E k \in DOMAIN calls : CreatedAgent(k)
    /\ calls[Len(calls)].op = "stream_query"
    /\ results[Len(results)] = Raised
    /\ resource_name = CreatedResourceName
    /\ exit_status = 0

===============================================================================
